---- MODULE Spec2Model ----
(***************************************************************************)
(* Radar backend: the Place Store, the import / pin operations that write  *)
(* it, the category mapping and the aggregation views that read it.        *)
(*                                                                         *)
(* The store is the `places` table of backend/models.py.  One action per   *)
(* request handler of backend/main.py; import_url is split at the await    *)
(* between its dedup SELECT and its commit, which is where two requests    *)
(* interleave.                                                             *)
(***************************************************************************)
EXTENDS Integers, Sequences, FiniteSets, TLC

\* Python None / SQL NULL
NULL == "NULL"

(***************************************************************************)
(* Bounds of the model                                                     *)
(***************************************************************************)
Users == {1, 2}
Venues == {"g1", "g2"}
Procs == {"p1", "p2"}
\* number of rows ever inserted (ids are 1..MaxPlaces)
MaxPlaces == 2
\* longest provider tag list tried on the category functions
MaxTags == 3

(***************************************************************************)
(* Category mapping: backend/models.py                                     *)
(***************************************************************************)
\* the tags tried: one or two of each bucket and one of none; "Bar" and "Local"
\* are the ones str.lower() changes
TagVocab == {"bar", "Bar", "restaurant", "cafe", "night_club", "museum", "Local",
             "store", "movie_theater", "tourist_attraction", "park"}

\* str.lower() on the tag vocabulary
Lower(t) ==
    CASE t = "Bar" -> "bar"
      [] t = "Local" -> "local"
      [] OTHER -> t

CafeWords == {"cafe", "coffee", "espresso", "latte", "cappuccino", "coffee_shop"}
BarWords == {"bar", "cocktail", "wine", "beer", "pub", "nightlife", "night_club",
             "liquor_store"}
ShopWords == {"shop", "store", "boutique", "retail", "shopping", "clothing_store",
              "shopping_mall", "book_store", "jewelry_store"}
LeisureWords == {"cinema", "theater", "entertainment", "activity", "fun",
                 "movie_theater", "amusement_park", "bowling_alley", "casino",
                 "stadium"}
GoOutWords == {"event", "party", "club", "experience", "rooftop",
               "tourist_attraction"}
NatureWords == {"park", "nature", "hiking", "beach", "outdoor", "natural_feature",
                "campground"}
CultureWords == {"museum", "gallery", "art", "culture", "exhibition", "art_gallery",
                 "library"}
EatWords == {"restaurant", "dining", "food", "cuisine", "noodles", "dim sum",
             "meal_delivery", "meal_takeaway"}

\* the closed set of category buckets (the comment on Place.category lists the
\* first six; CATEGORY_EMOJIS adds nature, culture, fitness and beauty)
CategoryBuckets == {"eat", "cafes", "bars", "shops", "leisure", "go_out", "nature",
                    "culture"}

\* `any(word in tags_lower for word in words)`: an exact match of a lowered tag
AnyWordIn(words, tags_lower) == (words \cap tags_lower) # {}

get_category_from_tags(tags) ==
    IF tags = <<>> THEN "eat"
    ELSE LET tags_lower == {Lower(tags[i]) : i \in DOMAIN tags} IN
         IF AnyWordIn(CafeWords, tags_lower) THEN "cafes"
         ELSE IF AnyWordIn(BarWords, tags_lower) THEN "bars"
         ELSE IF AnyWordIn(ShopWords, tags_lower) THEN "shops"
         ELSE IF AnyWordIn(LeisureWords, tags_lower) THEN "leisure"
         ELSE IF AnyWordIn(GoOutWords, tags_lower) THEN "go_out"
         ELSE IF AnyWordIn(NatureWords, tags_lower) THEN "nature"
         ELSE IF AnyWordIn(CultureWords, tags_lower) THEN "culture"
         ELSE IF AnyWordIn(EatWords, tags_lower) THEN "eat"
         ELSE "eat"

(***************************************************************************)
(* Category inference of the candidate pin: backend/google_places_helper.py *)
(***************************************************************************)
\* the category hints tried (NULL: no hint)
Hints == {NULL, "bar", "Wine Bar", "cafe", "restaurant", "grocery"}

\* which of the probed words occur as substrings of hint.lower()
HintSubstrings(hint) ==
    CASE hint = "bar" -> {"bar"}
      [] hint = "Wine Bar" -> {"bar"}
      [] hint = "cafe" -> {"cafe"}
      [] hint = "restaurant" -> {"restaurant"}
      [] OTHER -> {}

\* the keys of type_mapping
TypeMappingKeys == {"bar", "night_club", "liquor_store", "cafe", "coffee",
                    "restaurant", "meal_delivery", "meal_takeaway", "food",
                    "tourist_attraction", "museum", "art_gallery", "amusement_park",
                    "aquarium", "bowling_alley", "casino", "movie_theater", "park",
                    "spa", "stadium", "zoo", "shopping_mall", "store",
                    "clothing_store"}

\* type_mapping[t]; the dict literal names "night_club" twice and the later
\* entry ("Activity") is the one Python keeps
TypeMapping(t) ==
    CASE t \in {"bar", "liquor_store"} -> "Bar"
      [] t \in {"cafe", "coffee"} -> "Cafe"
      [] t \in {"restaurant", "meal_delivery", "meal_takeaway", "food"} -> "Restaurant"
      [] t \in {"shopping_mall", "store", "clothing_store"} -> "Shopping"
      [] OTHER -> "Activity"

\* the first type of the list that is a key of type_mapping, 0 if none
RECURSIVE FirstMapped(_, _)
FirstMapped(types, i) ==
    IF i > Len(types) THEN 0
    ELSE IF types[i] \in TypeMappingKeys THEN i
    ELSE FirstMapped(types, i + 1)

\* the category name of the (category, emoji) pair the function returns
infer_category_from_types(types, hint) ==
    LET hs == IF hint = NULL THEN {} ELSE HintSubstrings(hint)
        i == FirstMapped(types, 1)
    IN  IF "bar" \in hs \/ "drink" \in hs THEN "Bar"
        ELSE IF "cafe" \in hs \/ "coffee" \in hs THEN "Cafe"
        ELSE IF "restaurant" \in hs \/ "food" \in hs THEN "Restaurant"
        ELSE IF "activity" \in hs \/ "attraction" \in hs THEN "Activity"
        ELSE IF i # 0 THEN TypeMapping(types[i])
        ELSE "Place"

(***************************************************************************)
(* The Place Store: backend/models.py                                      *)
(***************************************************************************)
VARIABLES
    places,     \* the rows of the `places` table
    nextId,     \* the next value of the autoincrement primary key
    clock,      \* utcnow(), in days
    inflight,   \* per request slot: an import_url suspended before its commit
    resp,       \* the response to the request that completed last
    call        \* the last call of a category function, with its result

vars == <<places, nextId, clock, inflight, resp, call>>

\* a row as the Place(...) constructors leave it: is_visited, is_favorite take
\* the column default False, user_notes stays NULL, created_at is utcnow()
NewPlace(id, u, g, gid, category, tags, now) ==
    [id |-> id, user_id |-> u, google_place_id |-> gid, lat |-> g.lat,
     photo_url |-> g.photo_url, opening_hours |-> g.opening_hours,
     category |-> category, tags |-> tags,
     is_visited |-> FALSE, is_favorite |-> FALSE, user_notes |-> NULL,
     created_at |-> now]

\* the table without its unique constraint
UniqueViolation_NoConstraint(P, gid) == FALSE

\* google_place_id = Column(String, unique=True): a second row with the same
\* non-NULL value is rejected, whoever owns the first (NULLs never collide)
UniqueViolation(P, gid) ==
    gid # NULL /\ \E r \in P : r.google_place_id = gid

\* lat / lng = Column(Float, nullable=False)
NotNullViolation(row) == row.lat = NULL

\* a table whose constraint is on the pair (user_id, google_place_id)
IntegrityError_PerUser(P, row) ==
    \/ /\ row.google_place_id # NULL
       /\ \E r \in P : r.user_id = row.user_id /\ r.google_place_id = row.google_place_id
    \/ NotNullViolation(row)

\* what db.commit() of one added row raises
IntegrityError(P, row) ==
    UniqueViolation(P, row.google_place_id) \/ NotNullViolation(row)

\* `Place.google_place_id == gid` in a WHERE clause; a None operand renders
\* as IS NULL
SameGoogleId(r, gid) == r.google_place_id = gid

\* the rows user u holds for venue gid
RowsOf(P, u, gid) == {r \in P : r.user_id = u /\ r.google_place_id = gid}

NoItems == <<>>

Response(op, u, status, outcome, id, gid, items) ==
    [op |-> op, user |-> u, status |-> status, outcome |-> outcome, id |-> id,
     gid |-> gid, items |-> items]

NoResponse == Response("none", 0, 0, "none", 0, NULL, NoItems)

NoCall == [fn |-> "none", tags |-> <<>>, hint |-> NULL, result |-> NULL]

\* the provider found nothing: enrich_place_data / get_place_details return None
NotFoundG == [ok |-> FALSE, place_id |-> NULL, lat |-> NULL, photo_url |-> NULL,
              opening_hours |-> NULL, types |-> <<>>]

\* the extractor found nothing: process_instagram_url returns None
NoExtraction == [ok |-> FALSE, category |-> NULL]

Idle == [op |-> "idle", user |-> 0, g |-> NotFoundG, category |-> NULL, found |-> 0]

Init ==
    /\ places = {}
    /\ nextId = 1
    /\ clock = 0
    /\ inflight = [p \in Procs |-> Idle]
    /\ resp = NoResponse
    /\ call = NoCall

\* created_at defaults to datetime.utcnow() at the insert, and a later insert
\* reads a later time: the clock counts days and a committed row moves it on
\* by one, so no two rows carry the same created_at
Later(now, nid, nid2) == now + (nid2 - nid)

(***************************************************************************)
(* import_url: backend/main.py                                             *)
(***************************************************************************)
\* Step 4's SELECT ... WHERE user_id = u AND google_place_id = gid, then
\* scalar_one_or_none(): the row's id, 0 for no row, -1 when several rows
\* match (MultipleResultsFound)
ImportLookup(P, u, gid) ==
    LET hits == {r \in P : r.user_id = u /\ SameGoogleId(r, gid)} IN
    IF hits = {} THEN 0
    ELSE IF Cardinality(hits) = 1 THEN (CHOOSE r \in hits : TRUE).id
    ELSE -1

\* category = ai_data.get("category") or get_category_from_tags(tags), with
\* tags = ai_data.get("tags", []) which process_instagram_url never sets
ImportCategory(ai) ==
    IF ai.category # NULL THEN ai.category ELSE get_category_from_tags(<<>>)

\* an import that rebuilds the row it found from the provider's data, losing
\* what the user had set on it
ImportFinish_Overwrite(P, nid, now, u, g, category, found) ==
    LET row == NewPlace(nid, u, g, g.place_id, category, <<>>, now) IN
    IF found # 0
    THEN [places |-> {r \in P : r.id # found} \cup
                     {NewPlace(found, u, g, g.place_id, category, <<>>, now)},
          nextId |-> nid,
          resp |-> Response("import_url", u, 200, "existing", found, g.place_id,
                            NoItems)]
    ELSE IF UniqueViolation(P, row.google_place_id) \/ row.lat = NULL
    THEN [places |-> P, nextId |-> nid,
          resp |-> Response("import_url", u, 500, "integrity_error", 0,
                            g.place_id, NoItems)]
    ELSE [places |-> P \cup {row}, nextId |-> nid + 1,
          resp |-> Response("import_url", u, 200, "created", nid, g.place_id,
                            NoItems)]

\* an import that answers a failed commit as it answers a venue the provider
\* does not know
ImportFinish_NotFound(P, nid, now, u, g, category, found) ==
    LET row == NewPlace(nid, u, g, g.place_id, category, <<>>, now) IN
    IF found # 0
    THEN [places |-> P, nextId |-> nid,
          resp |-> Response("import_url", u, 200, "existing", found, g.place_id,
                            NoItems)]
    ELSE IF IntegrityError(P, row)
    THEN [places |-> P, nextId |-> nid,
          resp |-> Response("import_url", u, 404, "not_found", 0, NULL, NoItems)]
    ELSE [places |-> P \cup {row}, nextId |-> nid + 1,
          resp |-> Response("import_url", u, 200, "created", nid, g.place_id,
                            NoItems)]

\* the part of import_url after the SELECT: return the row found, or add a
\* new one and commit.  Gives the new store, the new key and the response.
ImportFinish(P, nid, now, u, g, category, found) ==
    LET row == NewPlace(nid, u, g, g.place_id, category, <<>>, now) IN
    IF found # 0
    THEN [places |-> P, nextId |-> nid,
          resp |-> Response("import_url", u, 200, "existing", found, g.place_id,
                            NoItems)]
    ELSE IF IntegrityError(P, row)
    THEN [places |-> P, nextId |-> nid,
          resp |-> Response("import_url", u, 500, "integrity_error", 0,
                            g.place_id, NoItems)]
    ELSE [places |-> P \cup {row}, nextId |-> nid + 1,
          resp |-> Response("import_url", u, 200, "created", nid, g.place_id,
                            NoItems)]

\* the early returns of import_url, before it touches the store for writing:
\* 400 when the extractor gives nothing, 404 when the provider gives nothing,
\* 500 when scalar_one_or_none() raises; NoResponse when it goes on
ImportEarly(P, u, ai, g) ==
    IF ~ai.ok
    THEN Response("import_url", u, 400, "no_extraction", 0, NULL, NoItems)
    ELSE IF ~g.ok
    THEN Response("import_url", u, 404, "not_found", 0, NULL, NoItems)
    ELSE IF ImportLookup(P, u, g.place_id) = -1
    THEN Response("import_url", u, 500, "multiple_results", 0, g.place_id, NoItems)
    ELSE NoResponse

\* import_url run without another request in between
import_url(u, ai, g) ==
    /\ UNCHANGED <<inflight, call>>
    /\ IF ImportEarly(places, u, ai, g) # NoResponse
       THEN /\ resp' = ImportEarly(places, u, ai, g)
            /\ UNCHANGED <<places, nextId, clock>>
       ELSE LET out == ImportFinish(places, nextId, clock, u, g, ImportCategory(ai),
                                    ImportLookup(places, u, g.place_id))
            IN  /\ places' = out.places
                /\ nextId' = out.nextId
                /\ clock' = Later(clock, nextId, out.nextId)
                /\ resp' = out.resp

\* import_url up to the await of its commit: extraction, enrichment and the
\* dedup SELECT.  The early returns answer at once; otherwise the request is
\* suspended with what it read.
ImportBegin(p, u, ai, g) ==
    /\ inflight[p] = Idle
    /\ UNCHANGED <<places, nextId, clock, call>>
    /\ IF ImportEarly(places, u, ai, g) # NoResponse
       THEN /\ resp' = ImportEarly(places, u, ai, g)
            /\ UNCHANGED inflight
       ELSE /\ inflight' = [inflight EXCEPT ![p] =
                   [op |-> "import_url", user |-> u, g |-> g,
                    category |-> ImportCategory(ai),
                    found |-> ImportLookup(places, u, g.place_id)]]
            /\ UNCHANGED resp

\* the rest of import_url, run when the request resumes
ImportCommit(p) ==
    /\ inflight[p].op = "import_url"
    /\ LET l == inflight[p]
           out == ImportFinish(places, nextId, clock, l.user, l.g, l.category, l.found)
       IN  /\ places' = out.places
           /\ nextId' = out.nextId
           /\ clock' = Later(clock, nextId, out.nextId)
           /\ resp' = out.resp
    /\ inflight' = [inflight EXCEPT ![p] = Idle]
    /\ UNCHANGED call

(***************************************************************************)
(* pin_place, add_place_by_id, update_place, delete_place: backend/main.py *)
(***************************************************************************)
\* Python's `x or default` on an optional request field
OrElse(x, default) == IF x = <<>> THEN default ELSE x

\* the row pin_place builds: category = request.category or
\* get_category_from_tags(request.tags or []), tags = request.tags or []
PinRow(nid, now, u, req, g) ==
    NewPlace(nid, u, g, g.place_id,
             IF req.category # NULL THEN req.category
             ELSE get_category_from_tags(OrElse(req.tags, <<>>)),
             OrElse(req.tags, <<>>), now)

\* one added row committed: the store, the key and the response that result
CommitNew(op, P, nid, u, row) ==
    IF IntegrityError(P, row)
    THEN [places |-> P, nextId |-> nid,
          resp |-> Response(op, u, 500, "integrity_error", 0, row.google_place_id,
                            NoItems)]
    ELSE [places |-> P \cup {row}, nextId |-> nid + 1,
          resp |-> Response(op, u, 200, "created", nid, row.google_place_id,
                            NoItems)]

\* POST /pin-place of main.py: no lookup of an existing row before the insert
pin_place(u, req, g) ==
    /\ UNCHANGED <<inflight, call>>
    /\ IF ~g.ok
       THEN /\ resp' = Response("pin_place", u, 404, "not_found", 0, NULL, NoItems)
            /\ UNCHANGED <<places, nextId, clock>>
       ELSE LET out == CommitNew("pin_place", places, nextId, u,
                                 PinRow(nextId, clock, u, req, g))
            IN  /\ places' = out.places
                /\ nextId' = out.nextId
                /\ clock' = Later(clock, nextId, out.nextId)
                /\ resp' = out.resp

\* types[:5]
Take(s, n) == SubSeq(s, 1, IF Len(s) < n THEN Len(s) ELSE n)

TagLimit == 5

\* the row add_place_by_id builds: google_place_id is the request's place_id,
\* category comes from the provider types, tags are the first five types
AddByIdRow(nid, now, u, place_id, g) ==
    NewPlace(nid, u, g, place_id, get_category_from_tags(g.types),
             Take(g.types, TagLimit), now)

\* POST /add-place-by-id: no lookup of an existing row before the insert
add_place_by_id(u, place_id, g) ==
    /\ UNCHANGED <<inflight, call>>
    /\ IF ~g.ok
       THEN /\ resp' = Response("add_place_by_id", u, 404, "not_found", 0, NULL,
                                NoItems)
            /\ UNCHANGED <<places, nextId, clock>>
       ELSE LET out == CommitNew("add_place_by_id", places, nextId, u,
                                 AddByIdRow(nextId, clock, u, place_id, g))
            IN  /\ places' = out.places
                /\ nextId' = out.nextId
                /\ clock' = Later(clock, nextId, out.nextId)
                /\ resp' = out.resp

\* a selection by id alone
OwnedRows_AnyOwner(P, u, place_id) == {r \in P : r.id = place_id}

\* the row the handlers of /places/{place_id} select: id and owner both match
OwnedRows(P, u, place_id) == {r \in P : r.id = place_id /\ r.user_id = u}

\* an update that replaces the user state: a field the request leaves out
\* goes back to its default
ApplyUpdate_Replace(r, req) ==
    [r EXCEPT
       !.is_visited = IF req.is_visited # <<>> THEN req.is_visited[1] ELSE FALSE,
       !.is_favorite = IF req.is_favorite # <<>> THEN req.is_favorite[1] ELSE FALSE,
       !.user_notes = IF req.user_notes # <<>> THEN req.user_notes[1] ELSE NULL]

\* an update that also clears the row's google_place_id
ApplyUpdate_Rekey(r, req) ==
    [r EXCEPT
       !.google_place_id = NULL,
       !.is_visited = IF req.is_visited # <<>> THEN req.is_visited[1] ELSE @,
       !.is_favorite = IF req.is_favorite # <<>> THEN req.is_favorite[1] ELSE @,
       !.user_notes = IF req.user_notes # <<>> THEN req.user_notes[1] ELSE @]

\* the "Update fields" block: a request field is <<>> for None, <<v>> for a value
ApplyUpdate(r, req) ==
    [r EXCEPT
       !.is_visited = IF req.is_visited # <<>> THEN req.is_visited[1] ELSE @,
       !.is_favorite = IF req.is_favorite # <<>> THEN req.is_favorite[1] ELSE @,
       !.user_notes = IF req.user_notes # <<>> THEN req.user_notes[1] ELSE @]

\* PATCH /places/{place_id}
update_place(u, place_id, req) ==
    /\ UNCHANGED <<nextId, clock, inflight, call>>
    /\ IF OwnedRows(places, u, place_id) = {}
       THEN /\ resp' = Response("update_place", u, 404, "not_found", 0, NULL, NoItems)
            /\ UNCHANGED places
       ELSE LET r == CHOOSE x \in OwnedRows(places, u, place_id) : TRUE IN
            /\ places' = (places \ {r}) \cup {ApplyUpdate(r, req)}
            /\ resp' = Response("update_place", u, 200, "updated", r.id,
                                r.google_place_id, NoItems)

\* a delete that answers as the handler does and keeps the row
delete_place_Soft(u, place_id) ==
    /\ UNCHANGED <<places, nextId, clock, inflight, call>>
    /\ IF OwnedRows(places, u, place_id) = {}
       THEN resp' = Response("delete_place", u, 404, "not_found", 0, NULL, NoItems)
       ELSE LET r == CHOOSE x \in OwnedRows(places, u, place_id) : TRUE IN
            resp' = Response("delete_place", u, 200, "deleted", r.id,
                             r.google_place_id, NoItems)

\* DELETE /places/{place_id}
delete_place(u, place_id) ==
    /\ UNCHANGED <<nextId, clock, inflight, call>>
    /\ IF OwnedRows(places, u, place_id) = {}
       THEN /\ resp' = Response("delete_place", u, 404, "not_found", 0, NULL, NoItems)
            /\ UNCHANGED places
       ELSE LET r == CHOOSE x \in OwnedRows(places, u, place_id) : TRUE IN
            /\ places' = places \ {r}
            /\ resp' = Response("delete_place", u, 200, "deleted", r.id,
                                r.google_place_id, NoItems)

\* GET /places/{place_id}
get_place(u, place_id) ==
    /\ UNCHANGED <<places, nextId, clock, inflight, call>>
    /\ IF OwnedRows(places, u, place_id) = {}
       THEN resp' = Response("get_place", u, 404, "not_found", 0, NULL, NoItems)
       ELSE LET r == CHOOSE x \in OwnedRows(places, u, place_id) : TRUE IN
            resp' = Response("get_place", u, 200, "ok", r.id, r.google_place_id, <<r>>)

(***************************************************************************)
(* The inputs tried, and the store operations run one request at a time    *)
(***************************************************************************)
\* what the provider answers: nothing, or a venue; place_id may be missing
\* (the search result carries none) and so may the coordinates
Provider(ids, lats, photos, hours, typeLists) ==
    {NotFoundG} \cup
    {[ok |-> TRUE, place_id |-> v, lat |-> l, photo_url |-> ph,
      opening_hours |-> oh, types |-> ty] :
        v \in ids, l \in lats, ph \in photos, oh \in hours, ty \in typeLists}

GoogleResults == Provider(Venues \cup {NULL}, {"22.28"}, {"photo"}, {"hours"}, {<<>>})

\* what the extractor answers: nothing, or a place without a category (the
\* pin emoji path)
AiResults == {NoExtraction, [ok |-> TRUE, category |-> NULL]}

PinRequests == {[category |-> NULL, tags |-> <<>>]}

UpdateRequests ==
    {[is_visited |-> <<TRUE>>, is_favorite |-> <<>>, user_notes |-> <<>>],
     [is_visited |-> <<>>, is_favorite |-> <<TRUE>>, user_notes |-> <<"note">>]}

Ids == 1..MaxPlaces

Next ==
    \/ \E u \in Users, ai \in AiResults, g \in GoogleResults :
          import_url(u, ai, g) /\ nextId' <= MaxPlaces + 1
    \/ \E u \in Users, req \in PinRequests, g \in GoogleResults :
          pin_place(u, req, g) /\ nextId' <= MaxPlaces + 1
    \/ \E u \in Users, v \in Venues, g \in GoogleResults :
          add_place_by_id(u, v, g) /\ nextId' <= MaxPlaces + 1
    \/ \E u \in Users, i \in Ids, req \in UpdateRequests : update_place(u, i, req)
    \/ \E u \in Users, i \in Ids : delete_place(u, i)
    \/ \E u \in Users, i \in Ids : get_place(u, i)

Spec == Init /\ [][Next]_vars

\* the life of a row: each user imports a venue of their own again and again,
\* sets its user state and deletes it
MaxReimport == 4

HomeVenue(u) == IF u = 1 THEN "g1" ELSE "g2"

VenueResult(v) ==
    [ok |-> TRUE, place_id |-> v, lat |-> "22.28", photo_url |-> "photo",
     opening_hours |-> "hours", types |-> <<>>]

NextReimport ==
    \/ \E u \in Users, ai \in {a \in AiResults : a.ok} :
          import_url(u, ai, VenueResult(HomeVenue(u))) /\ nextId' <= MaxReimport + 1
    \/ \E u \in Users, i \in 1..MaxReimport, req \in UpdateRequests : update_place(u, i, req)
    \/ \E u \in Users, i \in 1..MaxReimport : delete_place(u, i)

SpecReimport == Init /\ [][NextReimport]_vars

(***************************************************************************)
(* Imports that overlap: two request slots, import_url split at its await  *)
(***************************************************************************)
RaceGoogleResults == Provider(Venues, {"22.28"}, {"photo"}, {"hours"}, {<<>>})

RaceAiResults == {[ok |-> TRUE, category |-> NULL]}

NextRace ==
    \/ \E p \in Procs, u \in Users, ai \in RaceAiResults, g \in RaceGoogleResults :
          ImportBegin(p, u, ai, g)
    \/ \E p \in Procs : ImportCommit(p) /\ nextId' <= MaxPlaces + 1
    \/ \E u \in Users, i \in Ids, req \in UpdateRequests : update_place(u, i, req)
    \/ \E u \in Users, i \in Ids : delete_place(u, i)

SpecRace == Init /\ [][NextRace]_vars

(***************************************************************************)
(* The candidate pin: backend/pin_place_endpoint.py.  Its owner_id,        *)
(* place_id and notes are the store's user_id, google_place_id and         *)
(* user_notes.  The handler awaits nothing between its lookup and its      *)
(* commit, so it runs as one step.                                         *)
(***************************************************************************)
\* _format_place_data: location.get("lat", 0.0)
FormatLat(g) == IF g.lat = NULL THEN "0.0" ELSE g.lat

\* Step 3 of the candidate pin: canonical fields from the provider, category
\* inferred from its types and the hint, notes from the candidate
CandidateRow(nid, now, u, cand, g) ==
    [NewPlace(nid, u, g, g.place_id,
              infer_category_from_types(g.types, cand.category_hint), <<>>, now)
       EXCEPT !.lat = FormatLat(g), !.user_notes = cand.notes]

\* the candidate pin on store P: 404 when the provider gave nothing, the row
\* the user already holds for the venue, or a new row committed.  Gives the
\* store, the key and the response that result.
CandidateStep(P, nid, now, u, cand, g) ==
    IF ~g.ok \/ g.place_id = NULL
    THEN [places |-> P, nextId |-> nid,
          resp |-> Response("pin_place_candidate", u, 404, "not_found", 0, NULL, NoItems)]
    ELSE IF RowsOf(P, u, g.place_id) # {}
    THEN [places |-> P, nextId |-> nid,
          resp |-> Response("pin_place_candidate", u, 200, "existing",
                            (CHOOSE r \in RowsOf(P, u, g.place_id) : TRUE).id,
                            g.place_id, NoItems)]
    ELSE CommitNew("pin_place_candidate", P, nid, u, CandidateRow(nid, now, u, cand, g))

pin_place_candidate(u, cand, g) ==
    LET out == CandidateStep(places, nextId, clock, u, cand, g) IN
    /\ places' = out.places
    /\ nextId' = out.nextId
    /\ clock' = Later(clock, nextId, out.nextId)
    /\ resp' = out.resp
    /\ UNCHANGED <<inflight, call>>

\* the loop of pin_places_bulk over its candidates, each with the provider's
\* answer for it: a result is kept for a pin that returned, an error for one
\* that raised (the 404 or the failure of the commit)
RECURSIVE BulkLoop(_, _, _, _, _, _)
BulkLoop(P, nid, now, u, jobs, entries) ==
    IF jobs = <<>> THEN [places |-> P, nextId |-> nid, clock |-> now, items |-> entries]
    ELSE LET job == Head(jobs)
             out == CandidateStep(P, nid, now, u, job.cand, job.g)
             entry == [ok |-> out.resp.status = 200,
                       error |-> IF out.resp.status = 200 THEN NULL
                                 ELSE out.resp.outcome,
                       id |-> out.resp.id, gid |-> job.g.place_id]
         IN  BulkLoop(out.places, out.nextId, Later(now, nid, out.nextId), u, Tail(jobs),
                      Append(entries, entry))

\* POST /pin-places-bulk
pin_places_bulk(u, jobs) ==
    LET out == BulkLoop(places, nextId, clock, u, jobs, <<>>) IN
    /\ places' = out.places
    /\ nextId' = out.nextId
    /\ clock' = out.clock
    /\ resp' = Response("pin_places_bulk", u, 200, "done", 0, NULL, out.items)
    /\ UNCHANGED <<inflight, call>>

(***************************************************************************)
(* The category of the rows the write paths persist                        *)
(***************************************************************************)
CatGoogleResults ==
    Provider(Venues, {"22.28"}, {"photo"}, {"hours"},
             {<<"restaurant", "bar">>, <<"museum">>})

\* the extractor's answers: no category (pin emoji path), a category of the
\* closed set, or other text captured after "Category:" in the model's reply
CatAiResults ==
    {[ok |-> TRUE, category |-> NULL], [ok |-> TRUE, category |-> "cafes"],
     [ok |-> TRUE, category |-> "restaurant"]}

CatPinRequests ==
    {[category |-> NULL, tags |-> <<"Local", "bar">>], [category |-> "pub", tags |-> <<>>]}

Candidates ==
    {[category_hint |-> NULL, notes |-> NULL],
     [category_hint |-> "Wine Bar", notes |-> "note"]}

NextCategories ==
    \/ \E u \in Users, ai \in CatAiResults, g \in CatGoogleResults :
          import_url(u, ai, g) /\ nextId' <= MaxPlaces + 1
    \/ \E u \in Users, req \in CatPinRequests, g \in CatGoogleResults :
          pin_place(u, req, g) /\ nextId' <= MaxPlaces + 1
    \/ \E u \in Users, v \in Venues, g \in CatGoogleResults :
          add_place_by_id(u, v, g) /\ nextId' <= MaxPlaces + 1
    \/ \E u \in Users, cand \in Candidates, g \in CatGoogleResults :
          pin_place_candidate(u, cand, g) /\ nextId' <= MaxPlaces + 1

SpecCategories == Init /\ [][NextCategories]_vars

(***************************************************************************)
(* The category functions applied to tag lists                             *)
(***************************************************************************)
TagLists == UNION {[1..k -> TagVocab] : k \in 0..MaxTags}

\* the caller holds a tag list and a hint and has not called yet
InitCat ==
    /\ places = {}
    /\ nextId = 1
    /\ clock = 0
    /\ inflight = [p \in Procs |-> Idle]
    /\ resp = NoResponse
    /\ call \in {[fn |-> "none", tags |-> tags, hint |-> hint, result |-> NULL] :
                   tags \in TagLists, hint \in Hints}

CallGetCategoryFromTags ==
    /\ call.fn = "none"
    /\ call.hint = NULL
    /\ call' = [call EXCEPT !.fn = "get_category_from_tags",
                            !.result = get_category_from_tags(call.tags)]
    /\ UNCHANGED <<places, nextId, clock, inflight, resp>>

CallInferCategoryFromTypes ==
    /\ call.fn = "none"
    /\ call' = [call EXCEPT !.fn = "infer_category_from_types",
                            !.result = infer_category_from_types(call.tags, call.hint)]
    /\ UNCHANGED <<places, nextId, clock, inflight, resp>>

NextCat == CallGetCategoryFromTags \/ CallInferCategoryFromTypes

SpecCat == InitCat /\ [][NextCat]_vars

(***************************************************************************)
(* The home-screen views: backend/main.py                                  *)
(***************************************************************************)
MaxOwn == 11
MaxClock == 40
TickDays == {7, 30}

\* time passes between requests
Tick(d) ==
    /\ clock + d <= MaxClock
    /\ clock' = clock + d
    /\ UNCHANGED <<places, nextId, inflight, resp, call>>

\* .order_by(desc(Place.created_at)) as a list
RECURSIVE OrderByCreatedDesc(_)
OrderByCreatedDesc(S) ==
    IF S = {} THEN <<>>
    ELSE LET m == CHOOSE r \in S : \A x \in S : x.created_at <= r.created_at
         IN  <<m>> \o OrderByCreatedDesc(S \ {m})

RecentDays == 7
TotalDays == 30
ViewLimit == 10

\* the rows saved for the same venue within the last `days` days:
\* google_place_id == place.google_place_id AND created_at >= now - days
SavesWithin(P, now, gid, days) ==
    Cardinality({r \in P : SameGoogleId(r, gid) /\ r.created_at >= now - days})

\* an entry whose 30-day count leaves out the saves of the last 7 days
TrendingItem_Disjoint(P, now, place) ==
    LET saves_7d == SavesWithin(P, now, place.google_place_id, RecentDays)
        saves_30d == SavesWithin(P, now, place.google_place_id, TotalDays) - saves_7d
    IN  [place |-> place, score |-> (saves_7d * 4) + saves_30d,
         saves_7d |-> saves_7d, saves_30d |-> saves_30d]

\* one entry of trending_data.  The score (saves_7d * 2) + (saves_30d * 0.5) is
\* held doubled, as a whole number of halves.
TrendingItem(P, now, place) ==
    LET saves_7d == SavesWithin(P, now, place.google_place_id, RecentDays)
        saves_30d == SavesWithin(P, now, place.google_place_id, TotalDays)
    IN  [place |-> place, score |-> (saves_7d * 4) + saves_30d,
         saves_7d |-> saves_7d, saves_30d |-> saves_30d]

HasScore(item) == item.score > 0

\* a list left in the order it came in
SortByScore_Unsorted(items) == items

\* list.sort(key=score, reverse=True): stable, highest score first
RECURSIVE SortByScore(_)
SortByScore(items) ==
    IF items = <<>> THEN <<>>
    ELSE LET best == CHOOSE i \in DOMAIN items :
                        /\ \A j \in DOMAIN items : items[j].score <= items[i].score
                        /\ \A j \in 1..(i - 1) : items[j].score < items[i].score
         IN  <<items[best]>> \o
             SortByScore(SubSeq(items, 1, best - 1) \o
                         SubSeq(items, best + 1, Len(items)))

\* select(Place.google_place_id).where(Place.user_id == current_user.id)
user_saved_place_ids(P, u) == {r.google_place_id : r \in {x \in P : x.user_id = u}}

\* a trending list that leaves out the user's saved venues in every case
TrendingList_AlwaysExclude(P, now, u) ==
    LET all_places == OrderByCreatedDesc(P)
        scored == [i \in DOMAIN all_places |-> TrendingItem(P, now, all_places[i])]
        trending_data == SelectSeq(scored, HasScore)
        NotSaved(item) == item.place.google_place_id \notin user_saved_place_ids(P, u)
        top_trending == Take(SortByScore(SelectSeq(trending_data, NotSaved)), ViewLimit)
    IN  [i \in DOMAIN top_trending |->
           [id |-> top_trending[i].place.id,
            total_saves |-> top_trending[i].saves_30d,
            recent_saves |-> top_trending[i].saves_7d,
            trending_score |-> top_trending[i].score]]

\* the list get_trending returns for user u
TrendingList(P, now, u) ==
    LET all_places == OrderByCreatedDesc(P)
        scored == [i \in DOMAIN all_places |-> TrendingItem(P, now, all_places[i])]
        trending_data == SelectSeq(scored, HasScore)
        FromOther(item) == item.place.user_id # u
        NotSaved(item) == item.place.google_place_id \notin user_saved_place_ids(P, u)
        other_users_places == SelectSeq(trending_data, FromOther)
        trending_data_filtered ==
            IF other_users_places # <<>> THEN SelectSeq(trending_data, NotSaved)
            ELSE trending_data
        top_trending == Take(SortByScore(trending_data_filtered), ViewLimit)
    IN  [i \in DOMAIN top_trending |->
           [id |-> top_trending[i].place.id,
            total_saves |-> top_trending[i].saves_30d,
            recent_saves |-> top_trending[i].saves_7d,
            trending_score |-> top_trending[i].score]]

\* a view that takes what it lists out of the store
get_trending_Consume(u) ==
    /\ resp' = Response("get_trending", u, 200, "ok", 0, NULL,
                        TrendingList(places, clock, u))
    /\ places' = {r \in places :
                     \A i \in DOMAIN resp'.items : resp'.items[i].id # r.id}
    /\ UNCHANGED <<nextId, clock, inflight, call>>

\* GET /trending
get_trending(u) ==
    /\ resp' = Response("get_trending", u, 200, "ok", 0, NULL,
                        TrendingList(places, clock, u))
    /\ UNCHANGED <<places, nextId, clock, inflight, call>>

\* the fallback of get_picked_for_you: the user's own rows, newest first,
\* .limit(10)
OwnRecent_Unlimited(P, u) == OrderByCreatedDesc({r \in P : r.user_id = u})

OwnRecent(P, u) == Take(OrderByCreatedDesc({r \in P : r.user_id = u}), ViewLimit)

\* a loop that does not look at what the user has saved
RECURSIVE Recommend_IgnoreSaved(_, _, _)
Recommend_IgnoreSaved(rows, saved, seen) ==
    IF rows = <<>> THEN <<>>
    ELSE LET place == Head(rows) IN
         IF place.google_place_id \notin seen
         THEN <<place>> \o Recommend_IgnoreSaved(Tail(rows), saved,
                                                 seen \cup {place.google_place_id})
         ELSE Recommend_IgnoreSaved(Tail(rows), saved, seen)

\* the loop over other_users_places: keep a row whose venue the user has not
\* saved and that was not kept before, stop at ten
RECURSIVE Recommend(_, _, _)
Recommend(rows, saved, seen) ==
    IF rows = <<>> THEN <<>>
    ELSE LET place == Head(rows) IN
         IF place.google_place_id \notin saved /\ place.google_place_id \notin seen
         THEN <<place>> \o Recommend(Tail(rows), saved, seen \cup {place.google_place_id})
         ELSE Recommend(Tail(rows), saved, seen)

PickedList(P, u) ==
    LET other_users_places == OrderByCreatedDesc({r \in P : r.user_id # u})
        recommended_places ==
            IF other_users_places = <<>> THEN OwnRecent(P, u)
            ELSE Take(Recommend(other_users_places, user_saved_place_ids(P, u), {}),
                      ViewLimit)
    IN  [i \in DOMAIN recommended_places |->
           [id |-> recommended_places[i].id,
            google_place_id |-> recommended_places[i].google_place_id]]

\* GET /picked-for-you
get_picked_for_you(u) ==
    /\ resp' = Response("get_picked_for_you", u, 200, "ok", 0, NULL, PickedList(places, u))
    /\ UNCHANGED <<places, nextId, clock, inflight, call>>

SupportWindow == 50

LocalWords == {"local", "independent", "family", "small", "neighborhood"}

\* the list get_support_local returns for user u: of the 50 newest rows, those
\* with a local tag, without the venues the user has saved when the 50 hold a
\* row of another user; the first ten
SupportLocalList(P, u) ==
    LET recent == Take(OrderByCreatedDesc(P), SupportWindow)
        FromOther(place) == place.user_id # u
        other_users_places == SelectSeq(recent, FromOther)
        Local(place) ==
            /\ other_users_places # <<>>
                  => place.google_place_id \notin user_saved_place_ids(P, u)
            /\ place.tags # <<>>
            /\ AnyWordIn(LocalWords, {Lower(place.tags[i]) : i \in DOMAIN place.tags})
        local_places == SelectSeq(recent, Local)
        shown == Take(local_places, ViewLimit)
    IN  [i \in DOMAIN shown |-> [id |-> shown[i].id, tags |-> shown[i].tags]]

\* a view that refuses an empty store
get_support_local_NotEmpty(u) ==
    /\ resp' = IF places = {}
               THEN Response("get_support_local", u, 404, "not_found", 0, NULL, NoItems)
               ELSE Response("get_support_local", u, 200, "ok", 0, NULL,
                             SupportLocalList(places, u))
    /\ UNCHANGED <<places, nextId, clock, inflight, call>>

\* GET /support-local
get_support_local(u) ==
    /\ resp' = Response("get_support_local", u, 200, "ok", 0, NULL,
                        SupportLocalList(places, u))
    /\ UNCHANGED <<places, nextId, clock, inflight, call>>

\* the three views over a store that fills and empties: pins with and without
\* a local tag, deletions
ViewPinRequests ==
    {[category |-> NULL, tags |-> <<>>], [category |-> NULL, tags |-> <<"Local", "bar">>]}

NextViews ==
    \/ \E u \in Users, req \in ViewPinRequests, g \in GoogleResults :
          pin_place(u, req, g) /\ nextId' <= MaxPlaces + 1
    \/ \E u \in Users, i \in Ids : delete_place(u, i)
    \/ \E u \in Users : get_trending(u)
    \/ \E u \in Users : get_picked_for_you(u)
    \/ \E u \in Users : get_support_local(u)

SpecViews == Init /\ [][NextViews]_vars

\* the trending view over a store that ages: two users, pins of known venues
\* and of venues the provider gave no id for
NextTrending ==
    \/ \E u \in Users, req \in PinRequests, g \in GoogleResults :
          pin_place(u, req, g) /\ nextId' <= MaxPlaces + 1
    \/ \E d \in TickDays : Tick(d)
    \/ \E u \in Users : get_trending(u)
    \/ \E u \in Users : get_picked_for_you(u)

SpecTrending == Init /\ [][NextTrending]_vars

\* the views over a store that grows past the length of a view
OwnGoogleResults == Provider({NULL}, {"22.28"}, {"photo"}, {"hours"}, {<<>>})

NextPicked ==
    \/ \E u \in Users, req \in PinRequests, g \in OwnGoogleResults :
          pin_place(u, req, g) /\ nextId' <= MaxOwn + 1
    \/ \E u \in Users : get_picked_for_you(u)

SpecPicked == Init /\ [][NextPicked]_vars

\* the views over a store that outgrows them: the first rows are pins of
\* either user, with or without a local tag, of venues the provider gave no id
\* for; after them one user pins venue after venue, a new one each time, and a
\* month may pass at any point
MaxEarly == 2
MaxFeed == 13
Crowd == 2

MaxLocal == 52
VenueNames == [n \in 1..(MaxLocal + 2) |-> "v" \o ToString(n)]

\* the provider's answer for the n-th venue pinned
FreshResult(n) ==
    [ok |-> TRUE, place_id |-> VenueNames[n], lat |-> "22.28", photo_url |-> "photo",
     opening_hours |-> "hours", types |-> <<>>]

FeedPinRequests ==
    {[category |-> NULL, tags |-> <<>>], [category |-> NULL, tags |-> <<"Local">>]}

CrowdPinRequests == {[category |-> NULL, tags |-> <<"Local">>]}

NextFeed ==
    \/ \E u \in Users, req \in FeedPinRequests, g \in OwnGoogleResults :
          nextId <= MaxEarly /\ pin_place(u, req, g)
    \/ \E req \in CrowdPinRequests :
          /\ nextId > MaxEarly
          /\ pin_place(Crowd, req, FreshResult(nextId))
          /\ nextId' <= MaxFeed + 1
    \/ \E d \in {TotalDays} : Tick(d)
    \/ \E u \in Users : get_trending(u)
    \/ \E u \in Users : get_picked_for_you(u)
    \/ \E u \in Users : get_support_local(u)

SpecFeed == Init /\ [][NextFeed]_vars

\* the support-local view over a store that outgrows the 50 rows the view
\* reads: two first rows as above, then venue after venue pinned by one user
\* with a local tag
NextLocal ==
    \/ \E u \in Users, req \in FeedPinRequests, g \in OwnGoogleResults :
          nextId <= MaxEarly /\ pin_place(u, req, g)
    \/ \E req \in CrowdPinRequests :
          /\ nextId > MaxEarly
          /\ pin_place(Crowd, req, FreshResult(nextId))
          /\ nextId' <= MaxLocal + 1
    \/ \E u \in Users : get_support_local(u)

SpecLocal == Init /\ [][NextLocal]_vars

(***************************************************************************)
(* Resolution against the provider: backend/google_places.py and           *)
(* backend/google_places_helper.py                                         *)
(***************************************************************************)
\* Text Search gave no result (or failed)
NoSearch == [ok |-> FALSE, place_id |-> NULL, lat |-> NULL]

\* the first result of Text Search: its place_id and its geometry, either of
\* which may be missing
SearchResults ==
    {NoSearch} \cup
    {[ok |-> TRUE, place_id |-> v, lat |-> l] : v \in Venues \cup {NULL}, l \in {"22.28", NULL}}

\* the Place Details call failed
NoPlaceDetails == [ok |-> FALSE, lat |-> NULL, photo_url |-> NULL, opening_hours |-> NULL,
                   types |-> <<>>]

\* the result of Place Details; its geometry may be missing
PlaceDetails ==
    {NoPlaceDetails} \cup
    {[ok |-> TRUE, lat |-> l, photo_url |-> "photo", opening_hours |-> "hours",
      types |-> <<>>] : l \in {"22.28", NULL}}

\* search_place's dict: place_id and coordinates, no photo_url, opening_hours
\* or types
BasicData(search) ==
    [ok |-> TRUE, place_id |-> search.place_id, lat |-> search.lat, photo_url |-> NULL,
     opening_hours |-> NULL, types |-> <<>>]

\* get_place_details' dict for place_id
DetailedData(place_id, details) ==
    [ok |-> TRUE, place_id |-> place_id, lat |-> details.lat,
     photo_url |-> details.photo_url, opening_hours |-> details.opening_hours,
     types |-> details.types]

\* enrich_place_data: None without a search result; the search result when it
\* has no place_id or the details call fails; the details otherwise
enrich_place_data(search, details) ==
    IF ~search.ok THEN NotFoundG
    ELSE IF search.place_id = NULL THEN BasicData(search)
    ELSE IF ~details.ok THEN BasicData(search)
    ELSE DetailedData(search.place_id, details)

\* get_place_details as add_place_by_id calls it
get_place_details(place_id, details) ==
    IF ~details.ok THEN NotFoundG ELSE DetailedData(place_id, details)

\* fetch_place_details_from_google: None without a place_id from the search
\* and None when the details call fails
fetch_place_details_from_google(search, details) ==
    IF ~search.ok \/ search.place_id = NULL THEN NotFoundG
    ELSE IF ~details.ok THEN NotFoundG
    ELSE DetailedData(search.place_id, details)

ResolveCandidates == {[category_hint |-> NULL, notes |-> NULL]}

\* what each resolver can hand to its handler
EnrichResults ==
    {enrich_place_data(search, details) : search \in SearchResults, details \in PlaceDetails}

FetchResults ==
    {fetch_place_details_from_google(search, details) :
        search \in SearchResults, details \in PlaceDetails}

MaxBulk == 2

\* the candidates of one bulk request, each with what the helper resolves it
\* to: nothing, or a venue with its coordinates
BulkJobs ==
    LET answers == {g \in FetchResults : g.ok => g.lat # NULL}
        job == [cand : ResolveCandidates, g : answers]
    IN  UNION {[1..n -> job] : n \in 1..MaxBulk}

NextResolve ==
    \/ \E u \in Users, ai \in AiResults, g \in EnrichResults :
          import_url(u, ai, g) /\ nextId' <= MaxPlaces + 1
    \/ \E u \in Users, req \in PinRequests, g \in EnrichResults :
          pin_place(u, req, g) /\ nextId' <= MaxPlaces + 1
    \/ \E u \in Users, v \in Venues, details \in PlaceDetails :
          add_place_by_id(u, v, get_place_details(v, details)) /\ nextId' <= MaxPlaces + 1
    \/ \E u \in Users, cand \in ResolveCandidates, g \in FetchResults :
          pin_place_candidate(u, cand, g) /\ nextId' <= MaxPlaces + 1
    \/ \E u \in Users, jobs \in BulkJobs :
          pin_places_bulk(u, jobs) /\ nextId' <= MaxPlaces + 1

SpecResolve == Init /\ [][NextResolve]_vars

(***************************************************************************)
(* The text search of the candidate pin: backend/google_places_helper.py   *)
(***************************************************************************)
\* the fields of PlaceCandidateRequest the search reads, and their defaults
CandidateFields == {"name", "district", "city", "category_hint", "lat", "lng"}

FieldDefault(k) == IF k = "city" THEN "Hong Kong" ELSE NULL

\* the request model built from a JSON body and handed on as candidate.dict():
\* every field is a key, one the body left out holds its default
PlaceCandidateRequest(body) ==
    [k \in CandidateFields |-> IF k \in DOMAIN body THEN body[k] ELSE FieldDefault(k)]

SearchRadius == 500

NoBias == [location |-> <<>>, radius |-> 0]

\* candidate.get(k, default)
Get(candidate, k, default) == IF k \in DOMAIN candidate THEN candidate[k] ELSE default

\* the request _find_place_by_text sends: the query built from the name and
\* the district, city and hint that are set, and the location bias, added when
\* the dict has the keys lat and lng
find_place_by_text(candidate) ==
    LET part(k, default) ==
            LET v == Get(candidate, k, default) IN IF v = NULL THEN <<>> ELSE <<v>>
    IN  [query |-> <<Get(candidate, "name", NULL)>> \o part("district", NULL)
                      \o part("city", "Hong Kong") \o part("category_hint", NULL),
         location_bias |->
            IF "lat" \in DOMAIN candidate /\ "lng" \in DOMAIN candidate
            THEN [location |-> <<candidate["lat"], candidate["lng"]>>,
                  radius |-> SearchRadius]
            ELSE NoBias]

\* the candidates a client or a caller of the helper can hand over: the name,
\* and each other field left out, null or set
FieldValues(k) ==
    IF k = "name" THEN {"Bar Leone"}
    ELSE IF k = "district" THEN {NULL, "Central"}
    ELSE IF k = "category_hint" THEN {NULL, "bar"}
    ELSE IF k = "lat" THEN {NULL, "22.28"}
    ELSE IF k = "lng" THEN {NULL, "114.15"}
    ELSE {NULL, "Hong Kong"}

CandidateBodies ==
    LET values == UNION {FieldValues(k) : k \in CandidateFields}
        keys == {K \in SUBSET CandidateFields : "name" \in K /\ "city" \notin K}
    IN  UNION {{b \in [K -> values] : \A k \in K : b[k] \in FieldValues(k)} : K \in keys}

InitSearch ==
    /\ places = {}
    /\ nextId = 1
    /\ clock = 0
    /\ inflight = [p \in Procs |-> Idle]
    /\ resp = NoResponse
    /\ call \in {[fn |-> "none", candidate |-> b, result |-> NoBias] : b \in CandidateBodies}

\* POST /pin-place up to the search: the body parsed into the request model,
\* candidate.dict() passed to the helper
CallPinPlaceSearch ==
    /\ call.fn = "none"
    /\ call' = [call EXCEPT !.fn = "pin_place",
                            !.result = find_place_by_text(PlaceCandidateRequest(call.candidate))]
    /\ UNCHANGED <<places, nextId, clock, inflight, resp>>

\* the helper called with a dict as it is
CallFindPlaceByText ==
    /\ call.fn = "none"
    /\ call' = [call EXCEPT !.fn = "find_place_by_text",
                            !.result = find_place_by_text(call.candidate)]
    /\ UNCHANGED <<places, nextId, clock, inflight, resp>>

NextSearch == CallPinPlaceSearch \/ CallFindPlaceByText

SpecSearch == InitSearch /\ [][NextSearch]_vars

(***************************************************************************)
(* Backfill: backend/backfill_place_data.py and POST /admin/backfill       *)
(***************************************************************************)
\* _get_place_details returned None
NoDetails == [ok |-> FALSE, opening_hours |-> NULL, photo_url |-> NULL]

\* what Place Details answers for one place_id at the time of the run:
\* nothing, a result with hours and a photo, or a result with neither
DetailsResults ==
    {NoDetails,
     [ok |-> TRUE, opening_hours |-> "hours2", photo_url |-> "photo2"],
     [ok |-> TRUE, opening_hours |-> NULL, photo_url |-> NULL]}

\* one answer per venue
DetailsAnswers == [Venues -> DetailsResults]

\* a backfill that takes the provider's photo whether or not the row has one
BackfillRow_Overwrite(r, details, photos) ==
    IF r.opening_hours # NULL /\ (~photos \/ r.photo_url # NULL) THEN r
    ELSE IF r.google_place_id = NULL THEN r
    ELSE IF ~details[r.google_place_id].ok THEN r
    ELSE LET d == details[r.google_place_id] IN
         [r EXCEPT
            !.opening_hours = IF @ = NULL /\ d.opening_hours # NULL
                              THEN d.opening_hours ELSE @,
            !.photo_url = IF photos /\ d.photo_url # NULL THEN d.photo_url ELSE @]

\* the body of the loop for one place: skip a complete row, a row without
\* google_place_id and a row the provider gives nothing for; otherwise fill
\* opening_hours and, when the run handles photos, photo_url, each only if the
\* row has none
BackfillRow(r, details, photos) ==
    IF r.opening_hours # NULL /\ (~photos \/ r.photo_url # NULL) THEN r
    ELSE IF r.google_place_id = NULL THEN r
    ELSE IF ~details[r.google_place_id].ok THEN r
    ELSE LET d == details[r.google_place_id] IN
         [r EXCEPT
            !.opening_hours = IF @ = NULL /\ d.opening_hours # NULL
                              THEN d.opening_hours ELSE @,
            !.photo_url = IF photos /\ @ = NULL /\ d.photo_url # NULL
                          THEN d.photo_url ELSE @]

\* the counters of a run: complete rows, rows given up on, rows looked up
BackfillSummary(P, details, photos) ==
    LET complete == {r \in P : r.opening_hours # NULL /\ (~photos \/ r.photo_url # NULL)}
        failed == {r \in P \ complete :
                     r.google_place_id = NULL \/ ~details[r.google_place_id].ok}
    IN  [total |-> Cardinality(P), updated |-> Cardinality((P \ complete) \ failed),
         failed |-> Cardinality(failed), skipped |-> Cardinality(complete)]

\* the script: opening_hours and photo_url, one commit at the end
backfill_places(details) ==
    /\ places' = {BackfillRow(r, details, TRUE) : r \in places}
    /\ resp' = Response("backfill_places", 0, 0, "done", 0, NULL,
                        <<BackfillSummary(places, details, TRUE)>>)
    /\ UNCHANGED <<nextId, clock, inflight, call>>

\* POST /admin/backfill: opening_hours only
run_backfill(details) ==
    /\ places' = {BackfillRow(r, details, FALSE) : r \in places}
    /\ resp' = Response("run_backfill", 0, 200, "done", 0, NULL,
                        <<BackfillSummary(places, details, FALSE)>>)
    /\ UNCHANGED <<nextId, clock, inflight, call>>

\* what the provider answers an import with: some venues come without a
\* photo or without opening hours
BackfillGoogleResults ==
    Provider(Venues \cup {NULL}, {"22.28"}, {"photo", NULL}, {"hours", NULL}, {<<>>})

BackfillUpdateRequests ==
    {[is_visited |-> <<TRUE>>, is_favorite |-> <<TRUE>>, user_notes |-> <<"note">>]}

NextBackfill ==
    \/ \E u \in Users, ai \in RaceAiResults, g \in BackfillGoogleResults :
          import_url(u, ai, g) /\ nextId' <= MaxPlaces + 1
    \/ \E u \in Users, i \in Ids, req \in BackfillUpdateRequests : update_place(u, i, req)
    \/ \E details \in DetailsAnswers : backfill_places(details)
    \/ \E details \in DetailsAnswers : run_backfill(details)

SpecBackfill == Init /\ [][NextBackfill]_vars

(***************************************************************************)
(* Properties of the store operations                                      *)
(***************************************************************************)
\* C1: importing a URL that resolves to venue e for user u while u already holds
\* a row for e changes no row (so is_visited, is_favorite and user_notes stay as
\* update_place left them), leaves exactly one row for (u, e) and answers 200
\* with that row's id; an import that creates the row answers with the id of
\* the one row it created, which is the id the next import of e returns.
C1_ImportIdempotent ==
    [][\A u \in Users, ai \in AiResults, g \in GoogleResults :
          (import_url(u, ai, g) /\ ai.ok /\ g.ok /\ g.place_id # NULL) =>
             IF RowsOf(places, u, g.place_id) # {}
             THEN /\ places' = places
                  /\ Cardinality(RowsOf(places', u, g.place_id)) = 1
                  /\ resp'.status = 200
                  /\ \A r \in RowsOf(places, u, g.place_id) : resp'.id = r.id
             ELSE resp'.status = 200 =>
                  /\ Cardinality(RowsOf(places', u, g.place_id)) = 1
                  /\ \A r \in RowsOf(places', u, g.place_id) :
                        resp'.id = r.id /\ r \notin places]_vars

\* a second import answered with the existing row, whose user state had been
\* set through update_place in between
C1_Witness ==
    /\ resp.op = "import_url"
    /\ resp.outcome = "existing"
    /\ resp.gid # NULL
    /\ \E r \in places :
          /\ r.id = resp.id
          /\ r.user_id = resp.user
          /\ r.google_place_id = resp.gid
          /\ r.is_visited
          /\ r.is_favorite
          /\ r.user_notes = "note"

\* C2: no two rows share the same (user_id, google_place_id) when the
\* google_place_id is not NULL.
C2_DedupKeyIntegrity ==
    \A r1, r2 \in places :
        (r1.user_id = r2.user_id /\ r1.google_place_id = r2.google_place_id
           /\ r1.google_place_id # NULL) => r1 = r2

\* a request that would have added a second row for a (user, venue) pair
\* already present has just been rejected
C2_Witness ==
    /\ resp.outcome = "integrity_error"
    /\ resp.gid # NULL
    /\ RowsOf(places, resp.user, resp.gid) # {}
    /\ Cardinality(places) = 2

\* C3: when another user already holds a row for venue e, an import or pin of e
\* succeeds and leaves the requester with a row of their own for e.
C3_OwnershipPerUser ==
    (/\ resp.op \in {"import_url", "pin_place"}
     /\ resp.gid # NULL
     /\ \E r \in places : r.google_place_id = resp.gid /\ r.user_id # resp.user)
    => (resp.status = 200 /\ RowsOf(places, resp.user, resp.gid) # {})

\* C4: an import of venue e for user u that completes while a row for (u, e)
\* exists answers 200 with that row, also when the row was inserted by an
\* overlapping import after this one's lookup; it never answers with the
\* storage error of the duplicate insert.
C4_RaceRecovered ==
    (/\ resp.op = "import_url"
     /\ resp.gid # NULL
     /\ RowsOf(places, resp.user, resp.gid) # {})
    => (resp.status = 200 /\ \A r \in RowsOf(places, resp.user, resp.gid) : resp.id = r.id)

\* C5: add_place_by_id for (u, e) while u holds a row for e answers 200 with
\* that row: the second of two calls does not fail.
C5_AddByIdIdempotent ==
    (/\ resp.op = "add_place_by_id"
     /\ resp.gid # NULL
     /\ RowsOf(places, resp.user, resp.gid) # {})
    => (resp.status = 200 /\ \A r \in RowsOf(places, resp.user, resp.gid) : resp.id = r.id)

\* C6: the manual pin of a candidate resolving to venue e, for a user who holds
\* a row for e, is a successful no-op that returns the existing row.
C6_ManualPinIdempotent ==
    (/\ resp.op = "pin_place"
     /\ resp.gid # NULL
     /\ RowsOf(places, resp.user, resp.gid) # {})
    => (/\ resp.status = 200
        /\ Cardinality(RowsOf(places, resp.user, resp.gid)) = 1
        /\ \A r \in RowsOf(places, resp.user, resp.gid) : resp.id = r.id)

(***************************************************************************)
(* Properties of the category mapping                                      *)
(***************************************************************************)
\* C7: a provider tag list made of "restaurant" and "bar", in either order and
\* with no category hint, resolves to the bar bucket in both functions that
\* derive a category from provider tags.
C7_BarBeatsRestaurant ==
    (/\ call.fn \in {"get_category_from_tags", "infer_category_from_types"}
     /\ call.hint = NULL
     /\ {call.tags[i] : i \in DOMAIN call.tags} = {"restaurant", "bar"})
    => call.result \in {"bars", "Bar"}

\* C8: every row of the store has a category of the closed set.
C8_CategoryClosedSet == \A r \in places : r.category \in CategoryBuckets

(***************************************************************************)
(* Properties of the home-screen views                                     *)
(***************************************************************************)
RowById(P, id) == CHOOSE r \in P : r.id = id

\* C9: when the store holds a row of a user other than the requester, the
\* trending list shows no venue whose google_place_id the requester has saved.
C9_TrendingExcludesSaved ==
    [][\A u \in Users :
          (get_trending(u) /\ \E r \in places : r.user_id # u) =>
             \A i \in DOMAIN resp'.items :
                RowById(places, resp'.items[i].id).google_place_id
                   \notin {r.google_place_id : r \in {x \in places : x.user_id = u}}]_vars

\* C10: when the store is not empty and holds only the requester's rows,
\* picked-for-you returns the requester's rows, newest first, the ten newest
\* when there are more than ten, and never an empty list.
C10_ColdStartFallback ==
    [][\A u \in Users :
          (get_picked_for_you(u) /\ places # {} /\ \A r \in places : r.user_id = u) =>
             LET items == resp'.items
                 shown == {items[i].id : i \in DOMAIN items}
             IN  /\ items # <<>>
                 /\ Len(items) = IF Cardinality(places) < 10 THEN Cardinality(places)
                                  ELSE 10
                 /\ Cardinality(shown) = Len(items)
                 /\ shown \subseteq {r.id : r \in places}
                 /\ \A i, j \in DOMAIN items :
                       i < j => RowById(places, items[i].id).created_at
                                   > RowById(places, items[j].id).created_at
                 /\ \A r \in places : r.id \notin shown =>
                       \A i \in DOMAIN items :
                          r.created_at < RowById(places, items[i].id).created_at]_vars

\* a cold-start answer cut to ten: the user holds eleven rows, nobody else any
C10_Witness ==
    /\ resp.op = "get_picked_for_you"
    /\ Cardinality(places) = 11
    /\ \A r \in places : r.user_id = resp.user
    /\ Len(resp.items) = 10
    /\ resp.items[1].id = 11

(***************************************************************************)
(* Properties of the backfill                                              *)
(***************************************************************************)
BackfillRun == \E details \in DetailsAnswers : backfill_places(details) \/ run_backfill(details)

\* C11: a backfill run keeps every row, leaves a photo_url or opening_hours
\* that was present as it was, and never changes is_visited, is_favorite,
\* user_notes or tags.
C11_BackfillNonDestructive ==
    [][BackfillRun =>
          /\ Cardinality(places') = Cardinality(places)
          /\ \A r \in places : \E r2 \in places' :
                /\ r2.id = r.id
                /\ r.photo_url # NULL => r2.photo_url = r.photo_url
                /\ r.opening_hours # NULL => r2.opening_hours = r.opening_hours
                /\ r2.is_visited = r.is_visited
                /\ r2.is_favorite = r.is_favorite
                /\ r2.user_notes = r.user_notes
                /\ r2.tags = r.tags]_vars

\* the script has filled the hours of a row from a provider answer that also
\* carried another photo, and the row still has its photo and the user's state
C11_Witness ==
    /\ resp.op = "backfill_places"
    /\ \E r \in places :
          /\ r.photo_url = "photo"
          /\ r.opening_hours = "hours2"
          /\ r.is_visited /\ r.user_notes = "note"

(***************************************************************************)
(* Properties of the resolution                                            *)
(***************************************************************************)
\* C12: an import whose provider search gives no result, or whose details
\* call fails (after a search result that has coordinates), answers not found
\* and creates no row.
C12_NotFoundOnSearchOrDetailsFailure ==
    [][resp'.op = "import_url" =>
          \A ai \in AiResults, search \in SearchResults, details \in PlaceDetails :
             (/\ ai.ok
              /\ ~search.ok \/ (search.place_id # NULL /\ search.lat # NULL /\ ~details.ok)
              /\ import_url(resp'.user, ai, enrich_place_data(search, details)))
             => resp'.status = 404 /\ places' = places]_vars

\* C13: an import that resolved a venue the user does not hold yet and could
\* not store it answers with a storage error (500), while an import the
\* provider found nothing for answers 404; in a bulk import the error kept for
\* a candidate that was resolved is never the not-found error, and the error
\* kept for a candidate that was not resolved always is.  (An entry of the
\* bulk answer carries the google_place_id its candidate was resolved to, NULL
\* when it was not resolved.)
C13_StorageErrorDistinct ==
    [][/\ resp'.op = "import_url" =>
             \A ai \in AiResults, g \in EnrichResults :
                (import_url(resp'.user, ai, g) /\ ai.ok) =>
                   /\ ~g.ok => resp'.status = 404 /\ resp'.outcome = "not_found"
                   /\ (/\ g.ok
                       /\ RowsOf(places, resp'.user, g.place_id) = {}
                       /\ places' = places)
                         => resp'.status = 500 /\ resp'.outcome # "not_found"
       /\ resp'.op = "pin_places_bulk" =>
             \A i \in DOMAIN resp'.items :
                LET entry == resp'.items[i] IN
                /\ entry.gid = NULL => ~entry.ok /\ entry.error = "not_found"
                /\ (entry.gid # NULL /\ ~entry.ok) => entry.error = "integrity_error"]_vars

\* an import answered with the storage error: the venue was resolved, the
\* user holds no row for it, and the store took no row
C13_Witness ==
    /\ resp.op = "import_url"
    /\ resp.status = 500
    /\ resp.gid # NULL
    /\ RowsOf(places, resp.user, resp.gid) = {}
    /\ \E r \in places : r.google_place_id = resp.gid

\* a bulk import that kept both kinds of error
C13_WitnessBulk ==
    /\ resp.op = "pin_places_bulk"
    /\ \E i, j \in DOMAIN resp.items :
          /\ resp.items[i].error = "not_found"
          /\ resp.items[j].error = "integrity_error"

\* C14: on an empty store each of the three views answers 200 with an empty
\* list, for any user.
C14_EmptyStoreEmptyViews ==
    [][\A u \in Users :
          (/\ places = {}
           /\ get_trending(u) \/ get_picked_for_you(u) \/ get_support_local(u))
          => resp'.status = 200 /\ resp'.items = <<>>]_vars

\* support-local answered on a store emptied by deletions
C14_Witness ==
    /\ resp.op = "get_support_local"
    /\ resp.status = 200
    /\ places = {}
    /\ nextId > 1

C16_ExternalIdImmutable ==
    [][\A r \in places : \A r2 \in places' :
          (r.google_place_id # NULL /\ r2.id = r.id)
             => r2.google_place_id = r.google_place_id]_vars

\* a row that was updated, backfilled and then found again by a re-import
C16_Witness ==
    /\ resp.op = "import_url"
    /\ resp.outcome = "existing"
    /\ \E r \in places :
          /\ r.id = resp.id
          /\ r.google_place_id = resp.gid
          /\ r.google_place_id # NULL
          /\ r.is_visited
          /\ r.opening_hours = "hours2"

\* the bucket of a tag list under the order bars, cafes, shops, leisure,
\* go_out, nature, culture, eat
C17_FirstInOrder(tags_lower) ==
    IF AnyWordIn(BarWords, tags_lower) THEN "bars"
    ELSE IF AnyWordIn(CafeWords, tags_lower) THEN "cafes"
    ELSE IF AnyWordIn(ShopWords, tags_lower) THEN "shops"
    ELSE IF AnyWordIn(LeisureWords, tags_lower) THEN "leisure"
    ELSE IF AnyWordIn(GoOutWords, tags_lower) THEN "go_out"
    ELSE IF AnyWordIn(NatureWords, tags_lower) THEN "nature"
    ELSE IF AnyWordIn(CultureWords, tags_lower) THEN "culture"
    ELSE "eat"

\* C17: get_category_from_tags gives the first bucket, in the order bars,
\* cafes, shops, leisure, go_out, nature, culture, eat, that has a tag of the
\* list; eat when none has.
C17_PrecedenceOrder ==
    call.fn = "get_category_from_tags"
       => call.result = C17_FirstInOrder({Lower(call.tags[i]) : i \in DOMAIN call.tags})

(***************************************************************************)
(* Properties of the trending view                                         *)
(***************************************************************************)
\* the rows of P with the google_place_id of row `place` created at most
\* `days` days before `now`
C18_Saves(P, now, place, days) ==
    Cardinality({r \in P : r.google_place_id = place.google_place_id
                           /\ now - r.created_at <= days})

\* C18: every entry of a trending list carries, for its venue, the number of
\* rows of all users created in the last 7 days, the number created in the
\* last 30 days (the former included), and the score 2 x the first + 0.5 x
\* the second (held doubled: 4 x the first + the second).
C18_TrendingScore ==
    [][\A u \in Users :
          get_trending(u) =>
             \A i \in DOMAIN resp'.items :
                LET item == resp'.items[i]
                    place == RowById(places, item.id)
                    s7 == C18_Saves(places, clock, place, 7)
                    s30 == C18_Saves(places, clock, place, 30)
                IN  /\ item.recent_saves = s7
                    /\ item.total_saves = s30
                    /\ item.trending_score = (4 * s7) + s30]_vars

\* a trending entry for a venue saved once in the last 7 days and once more
\* in the last 30: score 2 x 1 + 0.5 x 2 = 3, held as 6
C18_Witness ==
    /\ resp.op = "get_trending"
    /\ \E i \in DOMAIN resp.items :
          /\ resp.items[i].recent_saves = 1
          /\ resp.items[i].total_saves = 2
          /\ resp.items[i].trending_score = 6

C20_SingleUserNoExclusion ==
    [][\A u \in Users :
          (get_trending(u) /\ \A r \in places : r.user_id = u) =>
             LET scored == {r \in places : C18_Saves(places, clock, r, 30) > 0}
                 shown == {resp'.items[i].id : i \in DOMAIN resp'.items}
             IN  /\ shown \subseteq {r.id : r \in scored}
                 /\ Cardinality(scored) <= 10 => shown = {r.id : r \in scored}
                 /\ scored # {} => resp'.items # <<>>]_vars

\* the requester holds the only rows of the store, for a known venue among
\* them, and the trending list shows them
C20_Witness ==
    /\ resp.op = "get_trending"
    /\ \A r \in places : r.user_id = resp.user
    /\ \E r \in places : r.google_place_id # NULL
    /\ Cardinality(places) = 2
    /\ Len(resp.items) = 2

\* the doubled score of the venue of row r
C21_Score(P, now, r) == (4 * C18_Saves(P, now, r, 7)) + C18_Saves(P, now, r, 30)

\* C21: a trending list has at most 10 entries, none with score 0; scores do
\* not increase along it and of two entries with the same score the one whose
\* row is newer comes first; a row left out that has a score above 0 and is
\* eligible (the requester has not saved its venue, or the store holds only
\* the requester's rows) is left out of a full list and scores no more than
\* any entry.
C21_TrendingTopTen ==
    [][\A u \in Users :
          get_trending(u) =>
             LET items == resp'.items
                 Row(i) == RowById(places, items[i].id)
                 shown == {items[i].id : i \in DOMAIN items}
             IN  /\ Len(items) <= 10
                 /\ Cardinality(shown) = Len(items)
                 /\ \A i \in DOMAIN items :
                       /\ Row(i) \in places
                       /\ items[i].trending_score = C21_Score(places, clock, Row(i))
                       /\ items[i].trending_score > 0
                 /\ \A i, j \in DOMAIN items :
                       i < j =>
                          \/ items[i].trending_score > items[j].trending_score
                          \/ /\ items[i].trending_score = items[j].trending_score
                             /\ Row(i).created_at > Row(j).created_at
                 /\ \A r \in places :
                       (/\ r.id \notin shown
                        /\ C21_Score(places, clock, r) > 0
                        /\ \/ \A x \in places : x.user_id = u
                           \/ \A x \in places : x.user_id = u
                                 => x.google_place_id # r.google_place_id)
                       => /\ Len(items) = 10
                          /\ \A i \in DOMAIN items :
                                C21_Score(places, clock, r) <= items[i].trending_score]_vars

\* a full list over a larger store: ten entries, not all of the same score,
\* and a row with a score left out
C21_Witness ==
    /\ resp.op = "get_trending"
    /\ Len(resp.items) = 10
    /\ resp.items[1].trending_score > resp.items[10].trending_score
    /\ Cardinality(places) > 10
    /\ \A r \in places : clock - r.created_at <= 30

\* C22: when the store holds a row of another user, picked-for-you lists rows
\* of other users only, none for a google_place_id the requester has saved,
\* no google_place_id twice, newest first, at most 10; a venue of another user
\* that the requester has not saved is missing only from a full list whose
\* entries are all newer than it, and it is shown by its newest row.
C22_PickedFromOthers ==
    [][\A u \in Users :
          (get_picked_for_you(u) /\ \E r \in places : r.user_id # u) =>
             LET items == resp'.items
                 Row(i) == RowById(places, items[i].id)
                 saved == {r.google_place_id : r \in {x \in places : x.user_id = u}}
                 others == {r \in places : r.user_id # u /\ r.google_place_id \notin saved}
                 Newest(r) == \A x \in others :
                                 x.google_place_id = r.google_place_id
                                    => x.created_at <= r.created_at
             IN  /\ Len(items) <= 10
                 /\ \A i \in DOMAIN items :
                       /\ Row(i) \in others
                       /\ Newest(Row(i))
                       /\ items[i].google_place_id = Row(i).google_place_id
                 /\ \A i, j \in DOMAIN items :
                       i < j => /\ Row(i).created_at > Row(j).created_at
                                /\ Row(i).google_place_id # Row(j).google_place_id
                 /\ \A r \in others :
                       (Newest(r) /\ \A i \in DOMAIN items : items[i].id # r.id)
                       => /\ Len(items) = 10
                          /\ \A i \in DOMAIN items : Row(i).created_at > r.created_at]_vars

\* a full list for a requester who has a row of their own, cut from more than
\* ten venues of the other user
C22_Witness ==
    /\ resp.op = "get_picked_for_you"
    /\ Len(resp.items) = 10
    /\ \E r \in places : r.user_id = resp.user
    /\ Cardinality({r \in places : r.user_id # resp.user /\ r.google_place_id # NULL}) > 10

\* C23: support-local returns at most 10 rows, each one of the 50 newest rows
\* of the store and each with a tag that is, in lower case, one of local,
\* independent, family, small, neighborhood; when the store holds a row of a
\* user other than the requester, no returned row has a google_place_id the
\* requester has saved.
C23_SupportLocal ==
    [][\A u \in Users :
          get_support_local(u) =>
             LET items == resp'.items
                 Row(i) == RowById(places, items[i].id)
                 newer(r) == {x \in places : x.created_at > r.created_at}
             IN  /\ Len(items) <= 10
                 /\ \A i \in DOMAIN items :
                       /\ Cardinality(newer(Row(i))) < 50
                       /\ \E k \in DOMAIN Row(i).tags : Lower(Row(i).tags[k]) \in LocalWords
                 /\ (\E r \in places : r.user_id # u) =>
                       \A i \in DOMAIN items :
                          Row(i).google_place_id
                             \notin {r.google_place_id : r \in {x \in places : x.user_id = u}}]_vars

\* C24: a step that answers trending, picked-for-you or support-local leaves
\* the store as it was: the same rows with the same fields, and no id used up.
C24_ViewsArePureReads ==
    [][resp'.op \in {"get_trending", "get_picked_for_you", "get_support_local"}
          => places' = places /\ nextId' = nextId /\ clock' = clock]_vars

\* a trending answer that lists both rows of the store
C24_Witness ==
    /\ resp.op = "get_trending"
    /\ Cardinality(places) = 2
    /\ Len(resp.items) = 2

C26_LocationBias ==
    [][call'.fn \in {"pin_place", "find_place_by_text"} =>
          LET c == call.candidate
              carries == /\ "lat" \in DOMAIN c /\ c["lat"] # NULL
                         /\ "lng" \in DOMAIN c /\ c["lng"] # NULL
          IN  call'.result.location_bias =
                 IF carries
                 THEN [location |-> <<c["lat"], c["lng"]>>, radius |-> 500]
                 ELSE NoBias]_vars

(***************************************************************************)
(* Further properties of the store operations                              *)
(***************************************************************************)
\* C27: no two rows of the store, whoever owns them, have the same non-NULL
\* google_place_id, and an import, pin or add-by-id of a google_place_id that
\* a row of another user holds adds no row and is answered with the store's
\* rejection.
C27_ExternalIdUniqueAcrossUsers ==
    [][/\ \A r1, r2 \in places' :
             (r1.google_place_id = r2.google_place_id /\ r1.google_place_id # NULL)
                => r1 = r2
       /\ (/\ resp'.op \in {"import_url", "pin_place", "add_place_by_id"}
           /\ resp'.gid # NULL
           /\ \E r \in places : r.google_place_id = resp'.gid /\ r.user_id # resp'.user)
          => /\ places' = places
             /\ resp'.status = 500
             /\ resp'.outcome = "integrity_error"]_vars

\* add-by-id of a venue the other user holds has just been rejected
C27_Witness ==
    /\ resp.op = "add_place_by_id"
    /\ resp.outcome = "integrity_error"
    /\ \E r \in places : r.google_place_id = resp.gid /\ r.user_id # resp.user
    /\ RowsOf(places, resp.user, resp.gid) = {}

\* C28: get_place, update_place and delete_place called with the id of a row
\* of another user answer not found (404) and leave the store as it was; a
\* call of any of them leaves every row of the other users in the store, and
\* get_place hands out a row of the requester only.
C28_OwnerScopedById ==
    [][\A u \in Users, i \in Ids, req \in UpdateRequests :
          (get_place(u, i) \/ update_place(u, i, req) \/ delete_place(u, i)) =>
             /\ (\E r \in places : r.id = i /\ r.user_id # u)
                   => resp'.status = 404 /\ places' = places
             /\ \A r \in places : r.user_id # u => r \in places'
             /\ \A k \in DOMAIN resp'.items : resp'.items[k].user_id = u]_vars

\* a read answered not found although every id of the range is the id of a
\* row: both rows are the other user's
C28_Witness ==
    /\ resp.op = "get_place"
    /\ resp.status = 404
    /\ \A i \in Ids : \E r \in places : r.id = i /\ r.user_id # resp.user

\* C29: an update of a row of the requester sets each of is_visited,
\* is_favorite and user_notes that the request carries to the value carried,
\* and leaves every other field of the row (owner, google_place_id, canonical
\* and provenance fields, tags, created_at) and every other row as they were.
C29_UpdateFrame ==
    [][\A u \in Users, i \in Ids, req \in UpdateRequests :
          (update_place(u, i, req) /\ resp'.status = 200) =>
             LET r == RowById(places, i)
                 r2 == RowById(places', i)
                 supplied == {f \in DOMAIN req : req[f] # <<>>}
             IN  /\ \A f \in DOMAIN r :
                       r2[f] = IF f \in supplied THEN req[f][1] ELSE r[f]
                 /\ DOMAIN r2 = DOMAIN r
                 /\ places' \ {r2} = places \ {r}]_vars

\* a second update that carried no is_visited has left the is_visited of the
\* first in place, next to a row of the other user
C29_Witness ==
    /\ resp.op = "update_place"
    /\ resp.status = 200
    /\ \E r \in places :
          /\ r.id = resp.id
          /\ r.is_visited /\ r.is_favorite /\ r.user_notes = "note"
    /\ \E r \in places : r.user_id # resp.user

====
